---- MODULE Spec2Model ----
(***************************************************************************)
(* markdown2html.py: the line loop of convert_md_to_html and the helpers   *)
(* it calls.  A Python str is modelled as a sequence of one-character      *)
(* strings, so rstrip, startswith, the heading pattern and the re.sub      *)
(* calls are computed character by character.                              *)
(***************************************************************************)
EXTENDS Integers, Sequences, FiniteSets, TLC

\* The longest input document, in lines.
MaxLines == 4

\* The longest document of heading-pattern lines, in lines.
MaxHeadingLines == 2

\* The longest document of well-formed and malformed lines, in lines.
MaxTotalLines == 2

\* The longest input file of a whole run of the command, in lines.
MaxMainLines == 2

----------------------------------------------------------------------------
\* Characters and literals

\* Characters str.rstrip()/str.strip() remove and the pattern \s matches.
Whitespace == {" ", "\t", "\n", "\r"}

NL == <<"\n">>
SP == <<" ">>

UL_OPEN  == <<"<", "u", "l", ">">>
UL_CLOSE == <<"<", "/", "u", "l", ">">>
OL_OPEN  == <<"<", "o", "l", ">">>
OL_CLOSE == <<"<", "/", "o", "l", ">">>
LI_OPEN  == <<"<", "l", "i", ">">>
LI_CLOSE == <<"<", "/", "l", "i", ">">>
P_OPEN   == <<"<", "p", ">">>
P_CLOSE  == <<"<", "/", "p", ">">>
BR       == <<"<", "b", "r", "/", ">">>
B_OPEN   == <<"<", "b", ">">>
B_CLOSE  == <<"<", "/", "b", ">">>
EM_OPEN  == <<"<", "e", "m", ">">>
EM_CLOSE == <<"<", "/", "e", "m", ">">>

\* str(level) of a one-digit level.
Digit(n) == <<"0", "1", "2", "3", "4", "5", "6", "7", "8", "9">>[n + 1]

H_OPEN(level)  == <<"<", "h", Digit(level), ">">>
H_CLOSE(level) == <<"<", "/", "h", Digit(level), ">">>

----------------------------------------------------------------------------
\* str methods

RECURSIVE rstrip(_)
rstrip(s) ==
    IF s = <<>> THEN s
    ELSE IF s[Len(s)] \in Whitespace THEN rstrip(SubSeq(s, 1, Len(s) - 1))
    ELSE s

RECURSIVE lstrip(_)
lstrip(s) ==
    IF s = <<>> THEN s
    ELSE IF s[1] \in Whitespace THEN lstrip(Tail(s))
    ELSE s

strip(s) == lstrip(rstrip(s))

startswith(s, prefix) ==
    /\ Len(s) >= Len(prefix)
    /\ SubSeq(s, 1, Len(prefix)) = prefix

\* s[n:] with n counted from 0, as a Python slice.
SliceFrom(s, n) == SubSeq(s, n + 1, Len(s))

\* sep.join(parts)
RECURSIVE join(_, _)
join(sep, parts) ==
    IF parts = <<>> THEN <<>>
    ELSE IF Len(parts) = 1 THEN parts[1]
    ELSE parts[1] \o sep \o join(sep, Tail(parts))

\* text.replace(ch, '')
replace_char(text, ch) == SelectSeq(text, LAMBDA c : c # ch)

\* The least element of a non-empty set of integers.
Min(S) == CHOOSE m \in S : \A k \in S : m <= k

----------------------------------------------------------------------------
\* Helpers of markdown2html.py

\* char.upper() for the letters of the modelled alphabet.
Upper(ch) ==
    CASE ch = "a" -> "A"
      [] ch = "c" -> "C"
      [] ch = "x" -> "X"
      [] OTHER -> ch

\* hashlib.md5(text.encode()).hexdigest(): the digests of the texts that can
\* stand between [[ and ]] in the modelled documents.
md5_hash(text) ==
    CASE text = <<"a">> ->
           << "0","c","c","1","7","5","b","9","c","0","f","1","b","6","a","8",
              "3","1","c","3","9","9","e","2","6","9","7","7","2","6","6","1" >>
      [] text = <<"x">> ->
           << "9","d","d","4","e","4","6","1","2","6","8","c","8","0","3","4",
              "f","5","c","8","5","6","4","e","1","5","5","c","6","7","a","6" >>
      [] text = <<>> ->
           << "d","4","1","d","8","c","d","9","8","f","0","0","b","2","0","4",
              "e","9","8","0","0","9","9","8","e","c","f","8","4","2","7","e" >>

remove_char(text, char) == replace_char(replace_char(text, char), Upper(char))

\* The four patterns handed to re.sub: two opening characters, a lazy group
\* of at least `least` characters, two closing characters.
PAT_MD5  == [open |-> "[", close |-> "]", least |-> 0, kind |-> "md5"]
PAT_RMC  == [open |-> "(", close |-> ")", least |-> 0, kind |-> "rmc"]
PAT_BOLD == [open |-> "*", close |-> "*", least |-> 1, kind |-> "bold"]
PAT_EM   == [open |-> "_", close |-> "_", least |-> 1, kind |-> "em"]

\* The replacement re.sub substitutes for a match whose group 1 is g.
Replacement(pat, g) ==
    CASE pat.kind = "md5"  -> md5_hash(g)
      [] pat.kind = "rmc"  -> remove_char(g, "c")
      [] pat.kind = "bold" -> B_OPEN \o g \o B_CLOSE
      [] pat.kind = "em"   -> EM_OPEN \o g \o EM_CLOSE

\* The least q >= from with s[q] = s[q+1] = ch, or 0: where the lazy group
\* of a match ends.
FindClose(s, from, ch) ==
    LET ends == {q \in from..(Len(s) - 1) : s[q] = ch /\ s[q + 1] = ch}
    IN  IF ends = {} THEN 0 ELSE Min(ends)

\* Where the match of pat that starts at p ends its group, or 0 when no match
\* starts at p ('.' does not match a newline).
MatchAt(pat, s, p) ==
    IF p + 1 <= Len(s) /\ s[p] = pat.open /\ s[p + 1] = pat.open
    THEN LET q == FindClose(s, p + 2 + pat.least, pat.close)
         IN  IF q # 0 /\ \A k \in (p + 2)..(q - 1) : s[k] # "\n" THEN q ELSE 0
    ELSE 0

\* re.sub(pat, repl, s) from position p on: the leftmost match at or after p
\* is replaced and the scan goes on behind it (non-overlapping matches).
RECURSIVE re_sub_from(_, _, _)
re_sub_from(pat, s, p) ==
    LET starts == {k \in p..Len(s) : MatchAt(pat, s, k) # 0}
    IN  IF starts = {} THEN SubSeq(s, p, Len(s))
        ELSE LET k == Min(starts)
                 q == MatchAt(pat, s, k)
             IN  SubSeq(s, p, k - 1)
                   \o Replacement(pat, SubSeq(s, k + 2, q - 1))
                   \o re_sub_from(pat, s, q + 2)

re_sub(pat, s) == re_sub_from(pat, s, 1)

convert_text_formatting(text) == re_sub(PAT_EM, re_sub(PAT_BOLD, text))

\* Mutant of create_paragraph: the lines are joined without the <br/> marker.
create_paragraph_nobr(lines) ==
    P_OPEN \o convert_text_formatting(join(SP, lines)) \o P_CLOSE

create_paragraph(lines) ==
    LET parts == [idx \in 1..Len(lines) |->
                    IF idx = 1 THEN lines[idx] ELSE BR \o lines[idx]]
    IN  P_OPEN \o convert_text_formatting(join(SP, parts)) \o P_CLOSE

\* Mutant of close_open_list: the two closing tags are swapped.
close_open_list_swapped(html, current_list) ==
    IF current_list = "ul" THEN Append(html, OL_CLOSE)
    ELSE IF current_list = "ol" THEN Append(html, UL_CLOSE)
    ELSE html

\* close_open_list appends to html_content in place; here it returns the list.
close_open_list(html, current_list) ==
    IF current_list = "ul" THEN Append(html, UL_CLOSE)
    ELSE IF current_list = "ol" THEN Append(html, OL_CLOSE)
    ELSE html

\* The heading pattern (#{1,6})\s+(.*) under re.match.
MaxHashes == 6

RECURSIVE LeadingHashes(_)
LeadingHashes(s) ==
    IF s # <<>> /\ s[1] = "#" THEN 1 + LeadingHashes(Tail(s)) ELSE 0

\* Mutant of heading_match: the pattern allows one '#' too many, #{1,7}.
heading_match_seven(line) ==
    LET n == LeadingHashes(line)
    IN  /\ n \in 1..(MaxHashes + 1)
        /\ Len(line) > n
        /\ line[n + 1] \in Whitespace

heading_match(line) ==
    LET n == LeadingHashes(line)
    IN  /\ n \in 1..MaxHashes
        /\ Len(line) > n
        /\ line[n + 1] \in Whitespace

\* len(heading_match.group(1))
heading_level(line) == LeadingHashes(line)

\* heading_match.group(2).strip()
heading_content(line) == strip(lstrip(SliceFrom(line, LeadingHashes(line))))

----------------------------------------------------------------------------
\* The documents: md_file.readlines() yields every line with its newline,
\* except that the last line of a file may come without one.

Corpus ==
    { <<"#", "#", " ", "_", "_", "h", "_", "_", " ">>,
      <<"-", " ", "b">>,
      <<"-", " ", "*", "*", "d", "*", "*">>,
      <<"*", " ", "c">>,
      <<"*", " ", "_", "_", "e", "_", "_">>,
      <<>>,
      <<"*", "*", "u", "[", "[", "a", "]", "]", "(", "(", "C", "x", "c", ")", ")">>,
      <<"v", "*", "*">> }

Documents ==
    UNION { [1..n -> Corpus] : n \in 0..MaxLines }

\* Lines for the heading pattern: 1 to 7 '#', then whitespace, then content
\* or none; a '#' with no whitespace behind it; and a line of each other sort.
Hashes(k) == [j \in 1..k |-> "#"]

HeadingCorpus ==
    { Hashes(k) \o tail :
        k \in 1..(MaxHashes + 1),
        tail \in { <<" ", "a">>, <<"\t", " ", "a", " ", "b", " ">>, <<" ">> } }
    \cup { <<"#", "a">>, <<"-", " ", "b">>, <<"*", " ", "c">>, <<>>, <<"v", "*", "*">> }

HeadingDocuments ==
    UNION { [1..n -> HeadingCorpus] : n \in 0..MaxHeadingLines }

\* Well-formed lines of each sort and lines with malformed markers: seven
\* '#', a '#' or '*' with no space behind it, a '- ' with nothing behind it.
TotalCorpus ==
    { <<"#", " ", "a">>, <<"-", " ", "b">>, <<"*", " ", "c">>, <<>>,
      <<"#", "#", "#", "#", "#", "#", "#", " ", "a">>,
      <<"#", "a">>, <<"-", " ">>, <<"*", "c">> }

TotalDocuments ==
    UNION { [1..n -> TotalCorpus] : n \in 0..MaxTotalLines }

MainDocuments ==
    UNION { [1..n -> Corpus] : n \in 0..MaxMainLines }

\* readlines() of a file with the lines doc; final_newline tells whether the
\* file ends with a newline.
readlines(doc, final_newline) ==
    [k \in 1..Len(doc) |->
        IF k < Len(doc) \/ final_newline THEN doc[k] \o NL ELSE doc[k]]

----------------------------------------------------------------------------
\* convert_md_to_html

VARIABLES
    markdown_content,   \* the lines read from the input file
    i,                  \* index of the line the for loop takes next
    pc,                 \* "loop" while in the for loop, "done" after line 68
    html_content,       \* the output blocks appended so far
    is_list_open,       \* "None", "ul" or "ol"
    paragraph_lines,    \* the buffered paragraph lines
    html_src,           \* history: for each entry of html_content, the input
                        \* lines it was made from (none for a closing list tag)
    paragraph_src,      \* history: the input line of each buffered line
    argc,               \* len(sys.argv)
    input_path,         \* "file", "missing", or "vanished": a file when main
                        \* tests it and gone when convert_md_to_html opens it
    output_path,        \* what open(output_file, 'w') does: "ok" or the
                        \* exception it raises
    output_file,        \* the file at the output path: whether it exists, its text
    stderr,             \* the messages written to sys.stderr
    exit_code,          \* "None" while the process runs, then its exit code
    io_log              \* history: the file operations attempted, in order

\* The process's surroundings, which the line loop does not touch.
env == << argc, input_path, output_path, output_file, stderr, exit_code, io_log >>

vars == << markdown_content, i, pc, html_content, is_list_open,
           paragraph_lines, html_src, paragraph_src, env >>

\* The messages of lines 111, 75/119, and of an uncaught PermissionError.
USAGE == "Usage: ./markdown2html.py README.md README.html"
MISSING_INPUT == "Missing <input path>"
TRACEBACK_PERMISSION == "Traceback ... PermissionError"

\* An output path with no file, and one with an older file.
NoFile == [exists |-> FALSE, text |-> <<>>]
OldFile == [exists |-> TRUE, text |-> <<"o", "l", "d">>]

\* line = line.rstrip() of the line the loop is at
line == rstrip(markdown_content[i])

InLoop == pc = "loop" /\ i <= Len(markdown_content)

\* html_src extended over the entries html has beyond it, which were made
\* from the input lines srcs.
SrcAfter(html, srcs) ==
    [k \in 1..Len(html) |->
        IF k <= Len(html_src) THEN html_src[k]
        ELSE IF html[k] \in {UL_CLOSE, OL_CLOSE} THEN <<>>
        ELSE srcs]

\* The state at line 18, before the first line is taken, for the files docs:
\* main has passed its two tests and the input has been read.
InitWith(docs) ==
    /\ \E doc \in docs, final_newline \in BOOLEAN :
          /\ final_newline \/ (doc # <<>> /\ doc[Len(doc)] # <<>>)
          /\ markdown_content = readlines(doc, final_newline)
    /\ i = 1
    /\ pc = "loop"
    /\ html_content = <<>>
    /\ is_list_open = "None"
    /\ paragraph_lines = <<>>
    /\ html_src = <<>>
    /\ paragraph_src = <<>>
    /\ argc = 3
    /\ input_path = "file"
    /\ output_path = "ok"
    /\ output_file = NoFile
    /\ stderr = <<>>
    /\ exit_code = "None"
    /\ io_log = <<"isfile", "open_r">>

Init == InitWith(Documents)

InitHeadings == InitWith(HeadingDocuments)

InitTotal == InitWith(TotalDocuments)

\* Lines 22-29.
Heading ==
    /\ InLoop
    /\ heading_match(line)
    /\ LET level == heading_level(line)
           html == Append(close_open_list(html_content, is_list_open),
                          H_OPEN(level) \o heading_content(line) \o H_CLOSE(level))
       IN  /\ html_content' = html
           /\ html_src' = SrcAfter(html, <<i>>)
    /\ is_list_open' = "None"
    /\ i' = i + 1
    /\ UNCHANGED << env, markdown_content, pc, paragraph_lines, paragraph_src >>

\* Mutant of UnorderedItem: the test `is_list_open != "ul"` is lost, so every
\* item closes the open list and opens a new one.
UnorderedItem_OpensPerItem ==
    /\ InLoop
    /\ ~heading_match(line)
    /\ startswith(line, <<"-", " ">>)
    /\ LET opened == Append(close_open_list(html_content, is_list_open), UL_OPEN)
           list_item == convert_text_formatting(SliceFrom(line, 2))
           html == Append(opened, LI_OPEN \o list_item \o LI_CLOSE)
       IN  /\ html_content' = html
           /\ html_src' = SrcAfter(html, <<i>>)
    /\ is_list_open' = "ul"
    /\ i' = i + 1
    /\ UNCHANGED << env, markdown_content, pc, paragraph_lines, paragraph_src >>

\* Lines 32-38.
UnorderedItem ==
    /\ InLoop
    /\ ~heading_match(line)
    /\ startswith(line, <<"-", " ">>)
    /\ LET opened == IF is_list_open # "ul"
                     THEN Append(close_open_list(html_content, is_list_open), UL_OPEN)
                     ELSE html_content
           list_item == convert_text_formatting(SliceFrom(line, 2))
           html == Append(opened, LI_OPEN \o list_item \o LI_CLOSE)
       IN  /\ html_content' = html
           /\ html_src' = SrcAfter(html, <<i>>)
    /\ is_list_open' = "ul"
    /\ i' = i + 1
    /\ UNCHANGED << env, markdown_content, pc, paragraph_lines, paragraph_src >>

\* Mutant of OrderedItem: the opening tag was copied from the '- ' branch.
OrderedItem_OpensUl ==
    /\ InLoop
    /\ ~heading_match(line)
    /\ ~startswith(line, <<"-", " ">>)
    /\ startswith(line, <<"*", " ">>)
    /\ LET opened == IF is_list_open # "ol"
                     THEN Append(close_open_list(html_content, is_list_open), UL_OPEN)
                     ELSE html_content
           list_item == convert_text_formatting(SliceFrom(line, 2))
           html == Append(opened, LI_OPEN \o list_item \o LI_CLOSE)
       IN  /\ html_content' = html
           /\ html_src' = SrcAfter(html, <<i>>)
    /\ is_list_open' = "ol"
    /\ i' = i + 1
    /\ UNCHANGED << env, markdown_content, pc, paragraph_lines, paragraph_src >>

\* Lines 41-47.
OrderedItem ==
    /\ InLoop
    /\ ~heading_match(line)
    /\ ~startswith(line, <<"-", " ">>)
    /\ startswith(line, <<"*", " ">>)
    /\ LET opened == IF is_list_open # "ol"
                     THEN Append(close_open_list(html_content, is_list_open), OL_OPEN)
                     ELSE html_content
           list_item == convert_text_formatting(SliceFrom(line, 2))
           html == Append(opened, LI_OPEN \o list_item \o LI_CLOSE)
       IN  /\ html_content' = html
           /\ html_src' = SrcAfter(html, <<i>>)
    /\ is_list_open' = "ol"
    /\ i' = i + 1
    /\ UNCHANGED << env, markdown_content, pc, paragraph_lines, paragraph_src >>

IsItem(l) == startswith(l, <<"-", " ">>) \/ startswith(l, <<"*", " ">>)

\* Mutant of BlankLine: paragraph_lines.clear() of line 55 is lost.
BlankLine_NoClear ==
    /\ InLoop
    /\ ~heading_match(line)
    /\ ~(startswith(line, <<"-", " ">>) \/ startswith(line, <<"*", " ">>))
    /\ line = <<>>
    /\ IF paragraph_lines # <<>>
       THEN LET html == Append(close_open_list(html_content, is_list_open),
                               create_paragraph(paragraph_lines))
            IN  /\ html_content' = html
                /\ html_src' = SrcAfter(html, paragraph_src)
                /\ is_list_open' = "None"
                /\ UNCHANGED << paragraph_lines, paragraph_src >>
       ELSE UNCHANGED << html_content, html_src, is_list_open,
                         paragraph_lines, paragraph_src >>
    /\ i' = i + 1
    /\ UNCHANGED << env, markdown_content, pc >>

\* Lines 50-55.
BlankLine ==
    /\ InLoop
    /\ ~heading_match(line)
    /\ ~IsItem(line)
    /\ line = <<>>
    /\ IF paragraph_lines # <<>>
       THEN LET html == Append(close_open_list(html_content, is_list_open),
                               create_paragraph(paragraph_lines))
            IN  /\ html_content' = html
                /\ html_src' = SrcAfter(html, paragraph_src)
                /\ is_list_open' = "None"
                /\ paragraph_lines' = <<>>
                /\ paragraph_src' = <<>>
       ELSE UNCHANGED << html_content, html_src, is_list_open,
                         paragraph_lines, paragraph_src >>
    /\ i' = i + 1
    /\ UNCHANGED << env, markdown_content, pc >>

\* Mutant of TextLine: a line that starts like a marker is not taken as text
\* (the loop has no branch for it).
TextLine_RejectsMarkers ==
    /\ InLoop
    /\ ~heading_match(line)
    /\ ~(startswith(line, <<"-", " ">>) \/ startswith(line, <<"*", " ">>))
    /\ line # <<>>
    /\ line[1] \notin {"#", "-", "*"}
    /\ paragraph_lines' = Append(paragraph_lines, re_sub(PAT_RMC, re_sub(PAT_MD5, line)))
    /\ paragraph_src' = Append(paragraph_src, i)
    /\ i' = i + 1
    /\ UNCHANGED << env, markdown_content, pc, html_content, html_src, is_list_open >>

\* Lines 56-60.
TextLine ==
    /\ InLoop
    /\ ~heading_match(line)
    /\ ~IsItem(line)
    /\ line # <<>>
    /\ paragraph_lines' = Append(paragraph_lines, re_sub(PAT_RMC, re_sub(PAT_MD5, line)))
    /\ paragraph_src' = Append(paragraph_src, i)
    /\ i' = i + 1
    /\ UNCHANGED << env, markdown_content, pc, html_content, html_src, is_list_open >>

\* Mutant of Finish: the closing call of line 68 is lost.
Finish_NoFinalClose ==
    /\ pc = "loop"
    /\ i > Len(markdown_content)
    /\ LET html == IF paragraph_lines # <<>>
                   THEN Append(close_open_list(html_content, is_list_open),
                               create_paragraph(paragraph_lines))
                   ELSE html_content
       IN  /\ html_content' = html
           /\ html_src' = SrcAfter(html, paragraph_src)
    /\ pc' = "done"
    /\ UNCHANGED << env, markdown_content, i, is_list_open, paragraph_lines, paragraph_src >>

\* Lines 63-68, after the last line.
Finish ==
    /\ pc = "loop"
    /\ i > Len(markdown_content)
    /\ LET flushed == IF paragraph_lines # <<>>
                      THEN Append(close_open_list(html_content, is_list_open),
                                  create_paragraph(paragraph_lines))
                      ELSE html_content
           html == close_open_list(flushed, is_list_open)
       IN  /\ html_content' = html
           /\ html_src' = SrcAfter(html, paragraph_src)
    /\ pc' = "done"
    /\ UNCHANGED << env, markdown_content, i, is_list_open, paragraph_lines, paragraph_src >>

Next ==
    \/ Heading
    \/ UnorderedItem
    \/ OrderedItem
    \/ BlankLine
    \/ TextLine
    \/ Finish

Spec == Init /\ [][Next]_vars

\* The same loop over the documents of heading-pattern lines.
SpecHeadings == InitHeadings /\ [][Next]_vars

\* The same loop over the documents of well-formed and malformed lines.
SpecTotal == InitTotal /\ [][Next]_vars

----------------------------------------------------------------------------
\* main and the file handling of convert_md_to_html

\* The process at line 110. markdown_content holds from the start what
\* readlines() will yield; an input path with no file yields nothing.
InitMain ==
    /\ argc \in {2, 3, 4}
    /\ input_path \in {"file", "missing", "vanished"}
    /\ output_path \in {"ok", "FileNotFoundError", "PermissionError"}
    /\ output_file \in {NoFile, OldFile}
    /\ output_path = "FileNotFoundError" => output_file = NoFile
    /\ IF input_path = "file"
       THEN \E doc \in MainDocuments, final_newline \in BOOLEAN :
               /\ final_newline \/ (doc # <<>> /\ doc[Len(doc)] # <<>>)
               /\ markdown_content = readlines(doc, final_newline)
       ELSE markdown_content = <<>>
    /\ i = 1
    /\ pc = "main"
    /\ html_content = <<>>
    /\ is_list_open = "None"
    /\ paragraph_lines = <<>>
    /\ html_src = <<>>
    /\ paragraph_src = <<>>
    /\ stderr = <<>>
    /\ exit_code = "None"
    /\ io_log = <<>>

core == << markdown_content, i, html_content, is_list_open,
           paragraph_lines, html_src, paragraph_src >>

\* Lines 110-112.
MainUsage ==
    /\ pc = "main"
    /\ argc # 3
    /\ stderr' = Append(stderr, USAGE)
    /\ exit_code' = 1
    /\ pc' = "exit"
    /\ UNCHANGED << core, argc, input_path, output_path, output_file, io_log >>

\* Mutant of MainMissing: the output file is created empty before the exit.
MainMissing_TouchesOutput ==
    /\ pc = "main"
    /\ argc = 3
    /\ input_path = "missing"
    /\ io_log' = io_log \o <<"isfile", "open_w">>
    /\ output_file' = [exists |-> TRUE, text |-> <<>>]
    /\ stderr' = Append(stderr, MISSING_INPUT)
    /\ exit_code' = 1
    /\ pc' = "exit"
    /\ UNCHANGED << core, argc, input_path, output_path >>

\* Lines 114-120, os.path.isfile false.
MainMissing ==
    /\ pc = "main"
    /\ argc = 3
    /\ input_path = "missing"
    /\ io_log' = Append(io_log, "isfile")
    /\ stderr' = Append(stderr, MISSING_INPUT)
    /\ exit_code' = 1
    /\ pc' = "exit"
    /\ UNCHANGED << core, argc, input_path, output_path, output_file >>

\* Lines 114-123, os.path.isfile true: convert_md_to_html is called.
MainCall ==
    /\ pc = "main"
    /\ argc = 3
    /\ input_path # "missing"
    /\ io_log' = Append(io_log, "isfile")
    /\ pc' = "convert"
    /\ UNCHANGED << core, argc, input_path, output_path, output_file, stderr, exit_code >>

\* Lines 11-16: the input is opened and read.
ReadInput ==
    /\ pc = "convert"
    /\ input_path = "file"
    /\ io_log' = Append(io_log, "open_r")
    /\ pc' = "loop"
    /\ UNCHANGED << core, argc, input_path, output_path, output_file, stderr, exit_code >>

\* Lines 11, 74-76: open(input_file) raises FileNotFoundError.
ReadInputFails ==
    /\ pc = "convert"
    /\ input_path = "vanished"
    /\ io_log' = Append(io_log, "open_r")
    /\ stderr' = Append(stderr, MISSING_INPUT)
    /\ exit_code' = 1
    /\ pc' = "exit"
    /\ UNCHANGED << core, argc, input_path, output_path, output_file >>

\* Lines 71-72: the output is opened and written; main returns.
WriteOutput ==
    /\ pc = "done"
    /\ output_path = "ok"
    /\ io_log' = io_log \o <<"open_w", "write">>
    /\ output_file' = [exists |-> TRUE, text |-> join(NL, html_content)]
    /\ exit_code' = 0
    /\ pc' = "exit"
    /\ UNCHANGED << core, argc, input_path, output_path, stderr >>

\* Lines 71, 74-76: open(output_file, 'w') raises FileNotFoundError, which
\* the except clause of line 74 catches.
WriteFailsNotFound ==
    /\ pc = "done"
    /\ output_path = "FileNotFoundError"
    /\ io_log' = Append(io_log, "open_w")
    /\ stderr' = Append(stderr, MISSING_INPUT)
    /\ exit_code' = 1
    /\ pc' = "exit"
    /\ UNCHANGED << core, argc, input_path, output_path, output_file >>

\* Line 71: open(output_file, 'w') raises PermissionError, which no except
\* clause catches: the interpreter prints the traceback and exits with 1.
WriteFailsDenied ==
    /\ pc = "done"
    /\ output_path = "PermissionError"
    /\ io_log' = Append(io_log, "open_w")
    /\ stderr' = Append(stderr, TRACEBACK_PERMISSION)
    /\ exit_code' = 1
    /\ pc' = "exit"
    /\ UNCHANGED << core, argc, input_path, output_path, output_file >>

NextMain ==
    \/ MainUsage
    \/ MainMissing
    \/ MainCall
    \/ ReadInput
    \/ ReadInputFails
    \/ Heading
    \/ UnorderedItem
    \/ OrderedItem
    \/ BlankLine
    \/ TextLine
    \/ Finish
    \/ WriteOutput
    \/ WriteFailsNotFound
    \/ WriteFailsDenied

\* A whole run of the command.
SpecMain == InitMain /\ [][NextMain]_vars

----------------------------------------------------------------------------
\* Reading the output

IsHeadingEntry(e)   == startswith(e, <<"<", "h">>)
IsParagraphEntry(e) == startswith(e, P_OPEN) /\ e # P_OPEN
IsItemEntry(e)      == startswith(e, LI_OPEN)
IsListOpen(e)       == e \in {UL_OPEN, OL_OPEN}
IsListClose(e)      == e \in {UL_CLOSE, OL_CLOSE}

\* The entry that begins a block: a heading, a paragraph, a list's opening tag.
IsBlockStart(e) == IsHeadingEntry(e) \/ IsParagraphEntry(e) \/ IsListOpen(e)

CloseTagOf(kind) == IF kind = "ul" THEN UL_CLOSE ELSE OL_CLOSE

\* The entries a step appended to html_content.
Appended == SubSeq(html_content', Len(html_content) + 1, Len(html_content'))

\* A step of the loop over a line of the given sort.
StepsLine == InLoop /\ i' = i + 1
HeadingStep == StepsLine /\ heading_match(line)
ItemStep(marker) ==
    StepsLine /\ ~heading_match(line) /\ startswith(line, <<marker, " ">>)
BlankStep == StepsLine /\ line = <<>>
TextStep ==
    StepsLine /\ ~heading_match(line) /\ ~IsItem(line) /\ line # <<>>

----------------------------------------------------------------------------
\* Claims

\* C1: the blocks appear in the output in document order: a block whose
\* first source line comes earlier in the input is emitted earlier.
C1_DocumentOrder ==
    pc = "done" =>
        \A a, b \in DOMAIN html_content :
            ( /\ a < b
              /\ IsBlockStart(html_content[a])
              /\ IsBlockStart(html_content[b]) )
            => html_src[a][1] < html_src[b][1]

\* C2: never is a list open while the paragraph buffer is non-empty.
C2_ListXorParagraph ==
    ~(is_list_open \in {"ul", "ol"} /\ paragraph_lines # <<>>)

\* C3: a heading line closes the open list and flushes the buffered paragraph
\* as a <p> block before its <hN> block; afterwards no list is open and the
\* paragraph buffer is empty.
C3_HeadingClosesBlocks ==
    [][HeadingStep =>
         /\ is_list_open' = "None"
         /\ paragraph_lines' = <<>>
         /\ Appended # <<>>
         /\ IsHeadingEntry(Appended[Len(Appended)])
         /\ is_list_open # "None" => Appended[1] = CloseTagOf(is_list_open)
         /\ paragraph_lines # <<>> =>
               \E k \in 1..(Len(Appended) - 1) :
                   Appended[k] = create_paragraph(paragraph_lines)]_vars

\* C4: a plain text line met while a list is open closes the list (closing
\* tag emitted, no list open afterwards) before it is buffered.
C4_TextClosesList ==
    [][(TextStep /\ is_list_open # "None") =>
         /\ is_list_open' = "None"
         /\ Appended = <<CloseTagOf(is_list_open)>>]_vars

\* C5: a blank line met while a list is open closes the list, whether or not
\* a paragraph is buffered.
C5_BlankClosesList ==
    [][(BlankStep /\ is_list_open # "None") =>
         /\ is_list_open' = "None"
         /\ Appended # <<>>
         /\ Appended[1] = CloseTagOf(is_list_open)]_vars

\* C6: a list-item line that has to open its list while a paragraph is
\* buffered flushes the paragraph as a <p> block before the opening tag.
C6_ItemFlushesParagraph ==
    [][\A marker \in {"-", "*"} :
         LET kind == IF marker = "-" THEN "ul" ELSE "ol"
             open_tag == IF marker = "-" THEN UL_OPEN ELSE OL_OPEN
         IN  (ItemStep(marker) /\ is_list_open # kind /\ paragraph_lines # <<>>) =>
               \E k, o \in 1..Len(Appended) :
                   /\ k < o
                   /\ Appended[k] = create_paragraph(paragraph_lines)
                   /\ Appended[o] = open_tag]_vars

\* The input lines by sort, as the loop classifies them.
LineAt(k) == rstrip(markdown_content[k])
IsTextAt(k) ==
    /\ ~heading_match(LineAt(k))
    /\ ~IsItem(LineAt(k))
    /\ LineAt(k) # <<>>
IsBlankAt(k) == LineAt(k) = <<>>

\* The input is a run of item lines with the one marker.
ItemRun(marker) ==
    /\ markdown_content # <<>>
    /\ \A k \in DOMAIN markdown_content : startswith(LineAt(k), <<marker, " ">>)

\* The <li> block of the item line at k.
ItemOf(k) == LI_OPEN \o convert_text_formatting(SliceFrom(LineAt(k), 2)) \o LI_CLOSE

\* C7: N >= 1 consecutive '- ' lines (and nothing else) give exactly one <ul>,
\* the N items in input order, one </ul>; '* ' lines likewise with <ol>, </ol>.
C7_RunIsOneList ==
    pc = "done" =>
        \A marker \in {"-", "*"} :
            ItemRun(marker) =>
                html_content =
                    <<IF marker = "-" THEN UL_OPEN ELSE OL_OPEN>>
                      \o [k \in DOMAIN markdown_content |-> ItemOf(k)]
                      \o <<IF marker = "-" THEN UL_CLOSE ELSE OL_CLOSE>>

\* C7 witness: a finished run of three '- ' lines, not all the same item.
C7_Witness ==
    /\ pc = "done"
    /\ ItemRun("-")
    /\ Len(markdown_content) = 3
    /\ LineAt(1) # LineAt(2)

\* C8: an item line whose marker differs from the open list's kind appends the
\* closing tag of the old kind, then the opening tag of the new kind, then the
\* item; an item line whose marker matches the open list appends the item only.
C8_MarkerSwitch ==
    [][\A marker \in {"-", "*"} :
         LET kind == IF marker = "-" THEN "ul" ELSE "ol"
             open_tag == IF marker = "-" THEN UL_OPEN ELSE OL_OPEN
         IN  ItemStep(marker) =>
               /\ is_list_open \notin {"None", kind} =>
                     /\ Len(Appended) = 3
                     /\ Appended[1] = CloseTagOf(is_list_open)
                     /\ Appended[2] = open_tag
                     /\ Appended[3] = ItemOf(i)
               /\ is_list_open = kind => Appended = <<ItemOf(i)>>]_vars

\* C8 witness: a list of one kind was closed and a list of the other kind
\* opened right behind it, and a second item went into a list without a tag.
C8_Witness ==
    \E k \in 1..(Len(html_content) - 3) :
        /\ html_content[k] = UL_CLOSE
        /\ html_content[k + 1] = OL_OPEN
        /\ IsItemEntry(html_content[k + 2])
        /\ IsItemEntry(html_content[k + 3])

\* C9: at end of input the buffered paragraph has been emitted as a <p> block
\* and every list opening tag has a closing tag of its kind behind it.
C9_EndOfInput ==
    pc = "done" =>
        /\ paragraph_lines # <<>> =>
              \E k \in DOMAIN html_content :
                  /\ html_content[k] = create_paragraph(paragraph_lines)
                  /\ html_src[k] = paragraph_src
        /\ \A a \in DOMAIN html_content :
              IsListOpen(html_content[a]) =>
                  \E b \in (a + 1)..Len(html_content) :
                      html_content[b] =
                          IF html_content[a] = UL_OPEN THEN UL_CLOSE ELSE OL_CLOSE

\* C9 witness: the input ended with a paragraph buffered and a list open.
C9_Witness ==
    /\ pc = "done"
    /\ paragraph_lines # <<>>
    /\ is_list_open = "ol"

\* The number of <br/> markers in an entry.
CountBR(e) == Cardinality({p \in 1..(Len(e) - 4) : SubSeq(e, p, p + 4) = BR})

InSeq(x, seq) == \E k \in DOMAIN seq : seq[k] = x

\* C10: a <p> block made of n lines holds n - 1 <br/> markers (none for a
\* single line); two text lines next to each other are in one <p> block; two
\* text lines with a blank line between them are in two separate <p> blocks.
C10_ParagraphLines ==
    pc = "done" =>
        /\ \A n \in DOMAIN html_content :
              IsParagraphEntry(html_content[n]) =>
                  /\ html_src[n] # <<>>
                  /\ CountBR(html_content[n]) = Len(html_src[n]) - 1
        /\ \A k \in 1..(Len(markdown_content) - 1) :
              (IsTextAt(k) /\ IsTextAt(k + 1)) =>
                  \E n \in DOMAIN html_content :
                      /\ IsParagraphEntry(html_content[n])
                      /\ InSeq(k, html_src[n])
                      /\ InSeq(k + 1, html_src[n])
        /\ \A k \in 1..(Len(markdown_content) - 2) :
              (IsTextAt(k) /\ IsBlankAt(k + 1) /\ IsTextAt(k + 2)) =>
                  \E n, m \in DOMAIN html_content :
                      /\ n # m
                      /\ IsParagraphEntry(html_content[n])
                      /\ IsParagraphEntry(html_content[m])
                      /\ InSeq(k, html_src[n]) /\ ~InSeq(k + 2, html_src[n])
                      /\ InSeq(k + 2, html_src[m]) /\ ~InSeq(k, html_src[m])

\* C10 witness: two text lines, a blank line, a text line: a <p> block of two
\* lines and a <p> block of one.
C10_Witness ==
    /\ pc = "done"
    /\ Len(markdown_content) = 4
    /\ IsTextAt(1) /\ IsTextAt(2) /\ IsBlankAt(3) /\ IsTextAt(4)
    /\ Len(html_content) = 2
    /\ CountBR(html_content[1]) = 1
    /\ CountBR(html_content[2]) = 0

\* What the else branch buffers for the text line at k (lines 58-59).
BufferedOf(k) == re_sub(PAT_RMC, re_sub(PAT_MD5, LineAt(k)))

\* The inline formatter with its four transformations in their order:
\* [[X]] digest, ((Y)) letter removal, **Z** bold, __W__ emphasis.
InlineFormat(text) ==
    convert_text_formatting(re_sub(PAT_RMC, re_sub(PAT_MD5, text)))

\* The <p> block of the text lines srcs with every line formatted on its own.
PerLineParagraph(srcs) ==
    LET parts == [idx \in 1..Len(srcs) |->
                    IF idx = 1
                    THEN convert_text_formatting(BufferedOf(srcs[idx]))
                    ELSE BR \o convert_text_formatting(BufferedOf(srcs[idx]))]
    IN  P_OPEN \o join(SP, parts) \o P_CLOSE

\* C11: a paragraph's lines are formatted one by one, never as the joined
\* text, so no bold or emphasis span starts on one line and ends on another.
C11_PerLineFormatting ==
    pc = "done" =>
        \A n \in DOMAIN html_content :
            IsParagraphEntry(html_content[n]) =>
                html_content[n] = PerLineParagraph(html_src[n])

\* C12: the content of a heading and of a list item goes through the same
\* four-step inline formatter as a paragraph line before it is put in its tag.
C12_SameFormatterEverywhere ==
    pc = "done" =>
        \A n \in DOMAIN html_content :
            /\ IsHeadingEntry(html_content[n]) =>
                  LET l == LineAt(html_src[n][1])
                  IN  html_content[n] =
                          H_OPEN(heading_level(l))
                            \o InlineFormat(heading_content(l))
                            \o H_CLOSE(heading_level(l))
            /\ IsItemEntry(html_content[n]) =>
                  html_content[n] =
                      LI_OPEN
                        \o InlineFormat(SliceFrom(LineAt(html_src[n][1]), 2))
                        \o LI_CLOSE

\* The greatest element of a non-empty set of integers.
Max(S) == CHOOSE m \in S : \A k \in S : k <= m

IsListTag(e) == IsListOpen(e) \/ IsListClose(e)

\* The list tags of the output, in order.
ListTags == SelectSeq(html_content, IsListTag)

\* C17: the list tags of the final output are balanced: every opening tag is
\* followed by exactly one closing tag of its kind, and no closing tag stands
\* where no list of its kind is open.
C17_BalancedListTags ==
    pc = "done" =>
        /\ Len(ListTags) % 2 = 0
        /\ \A j \in DOMAIN ListTags :
              IF j % 2 = 1
              THEN IsListOpen(ListTags[j])
              ELSE ListTags[j] =
                      IF ListTags[j - 1] = UL_OPEN THEN UL_CLOSE ELSE OL_CLOSE

\* The list kind the marker of the item line at k asks for.
KindAt(k) == IF startswith(LineAt(k), <<"-", " ">>) THEN "ul" ELSE "ol"

\* C18: the last list tag before every <li> is the opening tag of the kind
\* its marker asks for (so no <li> is emitted while no list is open), and in
\* the final output the first list tag behind it is that kind's closing tag.
C18_ItemsInsideLists ==
    \A n \in DOMAIN html_content :
        IsItemEntry(html_content[n]) =>
            LET kind == KindAt(html_src[n][1])
                before == {a \in 1..(n - 1) : IsListTag(html_content[a])}
                after == {b \in (n + 1)..Len(html_content) : IsListTag(html_content[b])}
            IN  /\ before # {}
                /\ html_content[Max(before)] = IF kind = "ul" THEN UL_OPEN ELSE OL_OPEN
                /\ pc = "done" =>
                      /\ after # {}
                      /\ html_content[Min(after)] = CloseTagOf(kind)

\* C18 witness: a finished output with a '- ' item and a '* ' item.
C18_Witness ==
    /\ pc = "done"
    /\ \E n, m \in DOMAIN html_content :
          /\ IsItemEntry(html_content[n]) /\ KindAt(html_src[n][1]) = "ul"
          /\ IsItemEntry(html_content[m]) /\ KindAt(html_src[m][1]) = "ol"
          /\ n < m

\* The text lines of the input and the <p> blocks of the output.
TextLines == {k \in DOMAIN markdown_content : IsTextAt(k)}
Paragraphs == {n \in DOMAIN html_content : IsParagraphEntry(html_content[n])}

\* C19: in the final output every text line is in exactly one <p> block,
\* once; each <p> block is the paragraph of its lines as buffered; within a
\* block and from block to block the lines keep their input order.
C19_TextLinesOnce ==
    pc = "done" =>
        /\ \A k \in TextLines :
              Cardinality({ pos \in UNION {{<<n, j>> : j \in DOMAIN html_src[n]} : n \in Paragraphs} :
                              html_src[pos[1]][pos[2]] = k }) = 1
        /\ \A n \in Paragraphs :
              /\ \A j \in DOMAIN html_src[n] : html_src[n][j] \in TextLines
              /\ \A j \in 1..(Len(html_src[n]) - 1) : html_src[n][j] < html_src[n][j + 1]
              /\ html_content[n] =
                    create_paragraph([j \in DOMAIN html_src[n] |-> BufferedOf(html_src[n][j])])
        /\ \A n, m \in Paragraphs :
              n < m => html_src[n][Len(html_src[n])] < html_src[m][1]

\* C19 witness: three text lines ended up in two <p> blocks.
C19_Witness ==
    /\ pc = "done"
    /\ Cardinality(TextLines) = 3
    /\ Cardinality(Paragraphs) = 2

\* The input line at k as the file holds it, without its newline.
RawAt(k) ==
    LET l == markdown_content[k]
    IN  IF l # <<>> /\ l[Len(l)] = "\n" THEN SubSeq(l, 1, Len(l) - 1) ELSE l

\* The text behind the leading '#' characters of the line at k.
AfterHashes(k) == SliceFrom(RawAt(k), LeadingHashes(RawAt(k)))

\* t stands somewhere in e.
Contains(e, t) == \E p \in 1..(Len(e) - Len(t) + 1) : SubSeq(e, p, p + Len(t) - 1) = t

\* C13: a line of k = 1..6 '#', whitespace and content gives <hk>content</hk>
\* with the content trimmed; a line of more than 6 '#', or of '#' characters
\* with nothing but whitespace behind them, gives no heading and goes into a
\* paragraph as it stands.
C13_HeadingLevels ==
    pc = "done" =>
        \A k \in DOMAIN markdown_content :
            LET n == LeadingHashes(RawAt(k))
                rest == AfterHashes(k)
                spaced == rest # <<>> /\ rest[1] \in Whitespace
                content == strip(rest)
                headings == {e \in DOMAIN html_content :
                               IsHeadingEntry(html_content[e]) /\ html_src[e] = <<k>>}
            IN  /\ (n \in 1..6 /\ spaced /\ content # <<>>) =>
                      /\ headings # {}
                      /\ \A e \in headings :
                            html_content[e] =
                                <<"<", "h", Digit(n), ">">> \o content
                                  \o <<"<", "/", "h", Digit(n), ">">>
                /\ (n > 6 \/ (n >= 1 /\ spaced /\ content = <<>>)) =>
                      /\ headings = {}
                      /\ \E e \in DOMAIN html_content :
                            /\ IsParagraphEntry(html_content[e])
                            /\ InSeq(k, html_src[e])
                            /\ Contains(html_content[e], strip(RawAt(k)))

\* C13 witness: a level-6 heading, then a line of seven '#' that became text.
C13_Witness ==
    /\ pc = "done"
    /\ Len(markdown_content) = 2
    /\ LeadingHashes(RawAt(1)) = 6
    /\ LeadingHashes(RawAt(2)) = 7
    /\ Len(html_content) = 2
    /\ IsHeadingEntry(html_content[1])
    /\ IsParagraphEntry(html_content[2])

\* The line at k starts like a marker and is neither a heading nor an item.
MalformedAt(k) ==
    /\ IsTextAt(k)
    /\ LineAt(k)[1] \in {"#", "-", "*"}

\* C14: the conversion is total: until the end of input is passed some step
\* of the loop can be taken, so no input stops it; it ends with every line
\* taken; a line with a malformed marker ends up in a paragraph; the empty
\* input gives the empty block sequence.
C14_Total ==
    /\ pc = "done" \/ ENABLED Next
    /\ pc = "done" =>
          /\ i = Len(markdown_content) + 1
          /\ \A k \in DOMAIN markdown_content :
                MalformedAt(k) =>
                    \E n \in DOMAIN html_content :
                        /\ IsParagraphEntry(html_content[n])
                        /\ InSeq(k, html_src[n])
          /\ markdown_content = <<>> => html_content = <<>>

\* C14 witness: a finished conversion of two lines with malformed markers.
C14_Witness ==
    /\ pc = "done"
    /\ Len(markdown_content) = 2
    /\ MalformedAt(1) /\ LineAt(1)[1] = "#"
    /\ MalformedAt(2) /\ LineAt(2)[1] = "-"
    /\ Len(html_content) = 1

\* C15: a failure to open or write the output path ends the process with
\* that error on the error stream and is never reported as a missing input.
C15_OutputErrorNotMasked ==
    (pc = "exit" /\ InSeq("open_w", io_log) /\ output_path # "ok") =>
        /\ exit_code = 1
        /\ ~InSeq(MISSING_INPUT, stderr)

\* C16: with a wrong argument count the process exits with code 1 and has
\* attempted no file operation; with no file at the input path it exits with
\* code 1 and the output file is as it was; the output file changes only in
\* a step taken after the whole input was read and converted.
C16_NoOutputOnBoundaryErrors ==
    [][/\ argc # 3 =>
             /\ pc' = "exit" /\ exit_code' = 1
             /\ io_log' = <<>>
             /\ output_file' = output_file
       /\ (argc = 3 /\ input_path # "file") =>
             /\ pc' = "exit" => exit_code' = 1
             /\ ~InSeq("open_w", io_log')
             /\ output_file' = output_file
       /\ output_file' # output_file =>
             /\ pc = "done"
             /\ i = Len(markdown_content) + 1
             /\ InSeq("open_r", io_log)]_vars

\* C16 witness: the run ended with code 1 on a missing input and the older
\* output file is still there.
C16_Witness ==
    /\ pc = "exit"
    /\ exit_code = 1
    /\ argc = 3
    /\ input_path = "missing"
    /\ output_file = OldFile
    /\ io_log = <<"isfile">>

====
